---- MODULE Spec2Model ----
(***************************************************************************)
(* Code lookup service (src/main.py): a sliding-window rate limiter        *)
(* guarding POST /api/check, and an admin surface over the `codes` table.  *)
(*                                                                         *)
(* Time is counted in ticks of 1/TicksPerSec second, so that the float     *)
(* returned by time.time() keeps a fractional part.  Strings are sequences *)
(* of one-character strings.                                               *)
(*                                                                         *)
(* RateLimiter guards its dictionary with a Lock and reads the clock       *)
(* before taking it: SpecLimiter interleaves the steps of two request      *)
(* threads.  The handlers are coroutines without an await and every        *)
(* statement on the table is one transaction: SpecAdmin, SpecLookup,       *)
(* SpecCheck and SpecRestart take a whole handler as one step, SpecRestart *)
(* with restarts of the process on the database file it left.              *)
(***************************************************************************)
EXTENDS Integers, Sequences, FiniteSets, TLC

\* ---- bounds of the model ------------------------------------------------
TicksPerSec == 2
MaxTick == 2
MaxLen == 2
MaxAdds == 1
MaxLeaks == 1
MaxSeedings == 2

\* ---- configuration (src/main.py:16-21) ----------------------------------
RATE_LIMIT_ATTEMPTS == 2
RATE_LIMIT_WINDOW == 1
ADMIN_KEY == "changeme"

WindowTicks == RATE_LIMIT_WINDOW * TicksPerSec

Threads == {1, 2}
NoThread == 0
Keys == {"ip1", "ip2"}

\* ---- strings -------------------------------------------------------------
Chars == {" ", "a"}
Whitespace == {" "}
Strings == UNION {[1..n -> Chars] : n \in 0..MaxLen}

\* a request field that the client left out, and JSON null
Missing == <<"missing">>
Null == <<"null">>
Fields == Strings \cup {Missing}

\* the X-Admin-Key header: left out, the secret, or something else
NoHeader == "<none>"
Headers == {NoHeader, ADMIN_KEY, "wrong"}

RECURSIVE lstrip(_)
lstrip(s) ==
    IF s # <<>> /\ Head(s) \in Whitespace THEN lstrip(Tail(s)) ELSE s

RECURSIVE rstrip(_)
rstrip(s) ==
    IF s # <<>> /\ s[Len(s)] \in Whitespace
    THEN rstrip(SubSeq(s, 1, Len(s) - 1))
    ELSE s

\* str.strip()
strip(s) == rstrip(lstrip(s))

upperChar(c) == IF c = "a" THEN "A" ELSE c

\* str.upper()
upper(s) == [i \in 1..Len(s) |-> upperChar(s[i])]

\* body.code.strip().upper()  (lines 127 and 158)
normalizeNoUpper(s) == strip(s)
normalize(s) == upper(strip(s))

\* ---- rate limiter (lines 25-40) -------------------------------------------
\* self._store[ip] of a defaultdict(list)
Get(st, k) == IF k \in DOMAIN st THEN st[k] ELSE <<>>

\* int(x) for x given in ticks: truncation toward zero of x / TicksPerSec
IntSec(x) == IF x >= 0 THEN x \div TicksPerSec ELSE -((-x) \div TicksPerSec)

\* line 35: the condition under which a timestamp is kept
FreshLe(n, t) == n - t <= WindowTicks
Fresh(n, t) == n - t < WindowTicks

\* line 35: [t for t in timestamps if now - t < RATE_LIMIT_WINDOW]
PruneNone(ts, n) == ts
Prune(ts, n) == SelectSeq(ts, LAMBDA t : Fresh(n, t))

\* line 36
AtLimitGt(ts) == Len(ts) > RATE_LIMIT_ATTEMPTS
AtLimit(ts) == Len(ts) >= RATE_LIMIT_ATTEMPTS

\* line 37
RetryAfter(ts, n) == IntSec(WindowTicks - (n - ts[1]))

\* ---- record store (lines 56-79, 131-138, 147-177) --------------------------
SeedRows ==
    { [id |-> 1, code |-> <<"A", "L", "P", "H", "A", "-", "0", "0", "1">>,
       message |-> <<"S", "A", "V", "E", "5", "0">>],
      [id |-> 2, code |-> <<"B", "E", "T", "A", "-", "2", "0", "2", "4">>,
       message |-> <<"b", "e", "t", "a">>],
      [id |-> 3, code |-> <<"V", "I", "P", "-", "G", "O", "L", "D">>,
       message |-> <<"V", "I", "P">>] }

NumSeeds == Cardinality(SeedRows)

\* datetime('now'): the clock at one-second resolution
DateTime(tick) == tick \div TicksPerSec

Ids(rs) == {r.id : r \in rs}
Codes(rs) == {r.code : r \in rs}

\* lines 69-78
init_db_missing(rs, sq, tick) ==
    LET missing == {r \in SeedRows : r.code \notin Codes(rs)}
    IN  [rows |-> rs \cup {[id |-> sq + r.id, code |-> r.code, message |-> r.message,
                            created_at |-> DateTime(tick)] : r \in missing},
         seq |-> IF missing = {} THEN sq ELSE sq + NumSeeds]
\* lines 69-78: seed the table when it holds no row
init_db(rs, sq, tick) ==
    IF Cardinality(rs) = 0
    THEN [rows |-> {[id |-> sq + r.id, code |-> r.code, message |-> r.message,
                     created_at |-> DateTime(tick)] : r \in SeedRows},
          seq |-> sq + NumSeeds]
    ELSE [rows |-> rs, seq |-> sq]

\* line 133: SELECT message FROM codes WHERE code = ?
SelectByPrefix(rs, c) ==
    {r \in rs : Len(r.code) >= Len(c) /\ SubSeq(r.code, 1, Len(c)) = c}
SelectByCode(rs, c) == {r \in rs : r.code = c}

\* lines 136-138
LookupResult(rs, c) ==
    IF SelectByCode(rs, c) # {}
    THEN [success |-> TRUE, message |-> (CHOOSE r \in SelectByCode(rs, c) : TRUE).message]
    ELSE [success |-> FALSE, message |-> Null]

\* line 174: DELETE FROM codes WHERE id = ?
DeleteRowsLe(rs, i) == {r \in rs : r.id > i}
DeleteRows(rs, i) == {r \in rs : r.id # i}

\* ---- state ----------------------------------------------------------------
VARIABLES
    clock,        \* time.time(), in ticks
    store,        \* RateLimiter._store: client key -> list of timestamps
    lock,         \* RateLimiter._lock: the thread holding it, or NoThread
    pc,           \* position of each request thread in check_code
    ip,           \* check_code's ip of each thread
    now,          \* is_allowed's now of each thread
    allowed,      \* is_allowed's first result
    retry_after,  \* is_allowed's second result
    pre,          \* the list is_allowed found under the thread's key
    resp,         \* the response the server sent last, to any request
    rows,         \* table codes
    seq,          \* sqlite_sequence of the AUTOINCREMENT id
    conns,        \* connections to the database that are open
    granted       \* history: per key and time, the calls is_allowed permitted

vars == <<clock, store, lock, pc, ip, now, allowed, retry_after, pre, resp,
          rows, seq, conns, granted>>

limiterVars == <<store, lock, pc, ip, now, allowed, retry_after, pre, resp>>
dbVars == <<rows, seq, conns>>

NoResp == [op |-> "none", status |-> 0]

Init ==
    /\ clock = 0
    /\ store = <<>>
    /\ lock = NoThread
    /\ pc = [t \in Threads |-> "idle"]
    /\ ip = [t \in Threads |-> "ip1"]
    /\ now = [t \in Threads |-> 0]
    /\ allowed = [t \in Threads |-> FALSE]
    /\ retry_after = [t \in Threads |-> 0]
    /\ pre = [t \in Threads |-> <<>>]
    /\ resp = NoResp
    /\ rows = init_db({}, 0, 0).rows
    /\ seq = init_db({}, 0, 0).seq
    /\ conns = 0
    /\ granted = [k \in Keys |-> [n \in 0..MaxTick |-> 0]]

\* ---- the clock --------------------------------------------------------------
Tick(max) ==
    /\ clock < max
    /\ clock' = clock + 1
    /\ UNCHANGED <<limiterVars, dbVars, granted>>

\* ---- POST /api/check (lines 115-138) -----------------------------------------
\* lines 117 and 31: the client key is resolved and is_allowed reads the clock
check_code(t, k) ==
    /\ pc[t] = "idle"
    /\ ip' = [ip EXCEPT ![t] = k]
    /\ now' = [now EXCEPT ![t] = clock]
    /\ pc' = [pc EXCEPT ![t] = "lock"]
    /\ UNCHANGED <<clock, store, lock, allowed, retry_after, pre, resp, dbVars, granted>>

\* line 32: with self._lock
acquire(t) ==
    /\ pc[t] = "lock"
    /\ lock = NoThread
    /\ lock' = t
    /\ pc' = [pc EXCEPT ![t] = "body"]
    /\ UNCHANGED <<clock, store, ip, now, allowed, retry_after, pre, resp, dbVars, granted>>

\* lines 33-40: the new store and the two results, for the key k and the time n
IsAllowedPruneAll(st, k, n) ==
    LET kept == Prune(Get(st, k), n)
        others == [q \in DOMAIN st |-> Prune(st[q], n)]
    IN  IF AtLimit(kept)
        THEN [store |-> (k :> kept) @@ others, allowed |-> FALSE,
              retry_after |-> RetryAfter(kept, n)]
        ELSE [store |-> (k :> Append(kept, n)) @@ others, allowed |-> TRUE,
              retry_after |-> 0]
IsAllowedRecordAll(st, k, n) ==
    LET kept == Prune(Get(st, k), n)
    IN  IF AtLimit(kept)
        THEN [store |-> (k :> Append(kept, n)) @@ st, allowed |-> FALSE,
              retry_after |-> RetryAfter(kept, n)]
        ELSE [store |-> (k :> Append(kept, n)) @@ st, allowed |-> TRUE,
              retry_after |-> 0]
IsAllowed(st, k, n) ==
    LET kept == Prune(Get(st, k), n)
    IN  IF AtLimit(kept)
        THEN [store |-> (k :> kept) @@ st, allowed |-> FALSE,
              retry_after |-> RetryAfter(kept, n)]
        ELSE [store |-> (k :> Append(kept, n)) @@ st, allowed |-> TRUE,
              retry_after |-> 0]

\* the history after a call for the key k that read the time n
Granted(g, k, n, al) == IF al THEN [g EXCEPT ![k][n] = @ + 1] ELSE g

\* lines 33-40, and the release of the lock
is_allowed(t) ==
    /\ pc[t] = "body"
    /\ lock = t
    /\ pre' = [pre EXCEPT ![t] = Get(store, ip[t])]
    /\ store' = IsAllowed(store, ip[t], now[t]).store
    /\ allowed' = [allowed EXCEPT ![t] = IsAllowed(store, ip[t], now[t]).allowed]
    /\ retry_after' = [retry_after EXCEPT ![t] = IsAllowed(store, ip[t], now[t]).retry_after]
    /\ lock' = NoThread
    /\ pc' = [pc EXCEPT ![t] = "ret"]
    /\ granted' = Granted(granted, ip[t], now[t],
                          IsAllowed(store, ip[t], now[t]).allowed)
    /\ UNCHANGED <<clock, ip, now, resp, dbVars>>

\* lines 120-138: the response to the body {code: raw}, given is_allowed's
\* results; read tells whether the handler ran the SELECT of line 133
ResponseLookupFirst(al, ra, rs, raw) ==
    IF normalize(raw) = <<>>
    THEN [op |-> "check", status |-> 400, read |-> FALSE]
    ELSE IF ~al
    THEN [op |-> "check", status |-> 429, retry |-> ra, header |-> ra, read |-> TRUE]
    ELSE [op |-> "check", status |-> 200, read |-> TRUE, code |-> normalize(raw),
          success |-> LookupResult(rs, normalize(raw)).success,
          message |-> LookupResult(rs, normalize(raw)).message]
Response(al, ra, rs, raw) ==
    IF ~al
    THEN [op |-> "check", status |-> 429, retry |-> ra, header |-> ra, read |-> FALSE]
    ELSE IF normalize(raw) = <<>>
    THEN [op |-> "check", status |-> 400, read |-> FALSE]
    ELSE [op |-> "check", status |-> 200, read |-> TRUE, code |-> normalize(raw),
          success |-> LookupResult(rs, normalize(raw)).success,
          message |-> LookupResult(rs, normalize(raw)).message]

\* lines 120-138
respond(t, raw) ==
    /\ pc[t] = "ret"
    /\ resp' = Response(allowed[t], retry_after[t], rows, raw)
    /\ pc' = [pc EXCEPT ![t] = "idle"]
    /\ ip' = [ip EXCEPT ![t] = "ip1"]
    /\ now' = [now EXCEPT ![t] = 0]
    /\ allowed' = [allowed EXCEPT ![t] = FALSE]
    /\ retry_after' = [retry_after EXCEPT ![t] = 0]
    /\ pre' = [pre EXCEPT ![t] = <<>>]
    /\ UNCHANGED <<clock, store, lock, dbVars, granted>>

\* lines 115-138 run without interruption, as the event loop runs the handler
check_request_validate_first(t, k, raw) ==
    /\ pc[t] = "idle"
    /\ IF normalize(raw) = <<>>
       THEN /\ resp' = [op |-> "check", status |-> 400, read |-> FALSE]
            /\ UNCHANGED <<store, granted>>
       ELSE /\ store' = IsAllowed(store, k, clock).store
            /\ resp' = Response(IsAllowed(store, k, clock).allowed,
                                IsAllowed(store, k, clock).retry_after, rows, raw)
            /\ granted' = Granted(granted, k, clock, IsAllowed(store, k, clock).allowed)
    /\ UNCHANGED <<clock, lock, pc, ip, now, allowed, retry_after, pre, dbVars>>
check_request(t, k, raw) ==
    /\ pc[t] = "idle"
    /\ store' = IsAllowed(store, k, clock).store
    /\ resp' = Response(IsAllowed(store, k, clock).allowed,
                         IsAllowed(store, k, clock).retry_after, rows, raw)
    /\ granted' = Granted(granted, k, clock, IsAllowed(store, k, clock).allowed)
    /\ UNCHANGED <<clock, lock, pc, ip, now, allowed, retry_after, pre, dbVars>>

\* ---- admin API (lines 95-97, 147-177) -----------------------------------------
\* lines 95-97: Header(...) makes the header required, then the comparison
require_admin(h) ==
    IF h = NoHeader THEN 422
    ELSE IF h # ADMIN_KEY THEN 401
    ELSE 200

RECURSIVE OrderByIdDesc(_)
OrderByIdDesc(rs) ==
    IF rs = {} THEN <<>>
    ELSE LET top == CHOOSE r \in rs : \A q \in rs : q.id <= r.id
         IN  <<top>> \o OrderByIdDesc(rs \ {top})

\* lines 147-153
list_codes(h) ==
    /\ resp' = IF require_admin(h) # 200
              THEN [op |-> "list", status |-> require_admin(h)]
              ELSE [op |-> "list", status |-> 200, body |-> OrderByIdDesc(rows)]
    /\ UNCHANGED <<clock, store, lock, pc, ip, now, allowed, retry_after, pre, dbVars, granted>>

\* line 163: INSERT INTO codes (code, message) VALUES (?, ?)
InsertOrUpdate(rs, sq, c, m, tick) ==
    IF c \in Codes(rs)
    THEN [ok |-> TRUE,
          rows |-> {IF r.code = c
                    THEN [r EXCEPT !.message = m, !.created_at = DateTime(tick)]
                    ELSE r : r \in rs},
          seq |-> sq]
    ELSE [ok |-> TRUE,
          rows |-> rs \cup {[id |-> sq + 1, code |-> c, message |-> m,
                             created_at |-> DateTime(tick)]},
          seq |-> sq + 1]
InsertNextRowid(rs, sq, c, m, tick) ==
    LET next == IF rs = {} THEN 1
                ELSE (CHOOSE i \in Ids(rs) : \A j \in Ids(rs) : j <= i) + 1
    IN  IF c \in Codes(rs)
        THEN [ok |-> FALSE, rows |-> rs, seq |-> sq]
        ELSE [ok |-> TRUE,
              rows |-> rs \cup {[id |-> next, code |-> c, message |-> m,
                                 created_at |-> DateTime(tick)]},
              seq |-> next]
Insert(rs, sq, c, m, tick) ==
    IF c \in Codes(rs)
    THEN [ok |-> FALSE, rows |-> rs, seq |-> sq]
    ELSE [ok |-> TRUE,
          rows |-> rs \cup {[id |-> sq + 1, code |-> c, message |-> m,
                             created_at |-> DateTime(tick)]},
          seq |-> sq + 1]

\* lines 95-97 and 156-168: the status answered to the body {code: c, message: m}
\* sent with the header h, the table and its id counter afterwards, and the
\* connections the handler leaves open: line 165 closes the one line 162 opened,
\* the except clause of lines 167-168 does not
AddCode(h, c, m, rs, sq, tick) ==
    IF require_admin(h) # 200
    THEN [status |-> require_admin(h), rows |-> rs, seq |-> sq, open |-> 0]
    ELSE IF c = Missing \/ m = Missing
    THEN [status |-> 422, rows |-> rs, seq |-> sq, open |-> 0]
    ELSE IF normalize(c) = <<>> \/ strip(m) = <<>>
    THEN [status |-> 400, rows |-> rs, seq |-> sq, open |-> 0]
    ELSE LET ins == Insert(rs, sq, normalize(c), strip(m), tick)
         IN  [status |-> IF ins.ok THEN 200 ELSE 409,
              rows |-> ins.rows, seq |-> ins.seq,
              open |-> IF ins.ok THEN 0 ELSE 1]

\* lines 156-168
add_code(h, c, m) ==
    LET out == AddCode(h, c, m, rows, seq, clock)
    IN  /\ out.seq <= NumSeeds + MaxAdds
        /\ conns + out.open <= MaxLeaks
        /\ resp' = [op |-> "add", status |-> out.status]
        /\ rows' = out.rows
        /\ seq' = out.seq
        /\ conns' = conns + out.open
        /\ UNCHANGED <<clock, store, lock, pc, ip, now, allowed, retry_after, pre, granted>>

\* lines 171-177
delete_code(h, i) ==
    IF require_admin(h) # 200
    THEN /\ resp' = [op |-> "delete", status |-> require_admin(h)]
         /\ UNCHANGED <<clock, store, lock, pc, ip, now, allowed, retry_after, pre, dbVars, granted>>
    ELSE /\ rows' = DeleteRows(rows, i)
         /\ resp' = [op |-> "delete", status |-> 200]
         /\ UNCHANGED <<clock, store, lock, pc, ip, now, allowed, retry_after, pre, seq, conns, granted>>

\* ---- the process starts (lines 83-86) -------------------------------------------
\* The process starts again on the database file it left: the limiter's
\* dictionary and the connections of the old process are gone, init_db runs.
lifespan ==
    /\ init_db(rows, seq, clock).seq <= NumSeeds * MaxSeedings + MaxAdds
    /\ rows' = init_db(rows, seq, clock).rows
    /\ seq' = init_db(rows, seq, clock).seq
    /\ conns' = 0
    /\ store' = <<>>
    /\ lock' = NoThread
    /\ pc' = [t \in Threads |-> "idle"]
    /\ ip' = [t \in Threads |-> "ip1"]
    /\ now' = [t \in Threads |-> 0]
    /\ allowed' = [t \in Threads |-> FALSE]
    /\ retry_after' = [t \in Threads |-> 0]
    /\ pre' = [t \in Threads |-> <<>>]
    /\ resp' = [op |-> "start", status |-> 0]
    /\ granted' = [k \in Keys |-> [n \in 0..MaxTick |-> 0]]
    /\ UNCHANGED clock

\* ---- specifications -------------------------------------------------------------
SeedInput == <<"a", "L", "P", "H", "a", "-", "0", "0", "1">>

\* what a client may send as the code of a check request
CheckInputs == Strings \cup {<<"A">>, SeedInput}
LimiterInputs == {<<" ">>, <<"a">>, SeedInput}

\* the codes of the requests sent without the valid key
DeniedFields == {Missing, <<"a">>, SeedInput}

\* what an administrator may send as the message of a new record
MsgInputs == {Missing, <<>>, <<" ">>, <<"m">>, <<" ", "n", " ">>}

\* the ids an administrator may ask to delete: every id the table has
\* assigned, stored or deleted, and two it has not
DeleteIds == 0..(seq + 1)

\* requests of concurrent clients against the rate limiter
NextLimiter ==
    \/ Tick(MaxTick)
    \/ \E t \in Threads, k \in Keys : check_code(t, k)
    \/ \E t \in Threads : acquire(t)
    \/ \E t \in Threads : is_allowed(t)
    \/ \E t \in Threads, raw \in LimiterInputs : respond(t, raw)

SpecLimiter == Init /\ [][NextLimiter]_vars

\* the admin API as time passes, one handler at a time
NextAdmin ==
    \/ Tick(MaxTick)
    \/ \E h \in Headers : list_codes(h)
    \/ \E c \in Fields, m \in MsgInputs : add_code(ADMIN_KEY, c, m)
    \/ \E h \in Headers \ {ADMIN_KEY}, c \in DeniedFields :
           add_code(h, c, <<"m">>)
    \/ \E h \in Headers, i \in DeleteIds : delete_code(h, i)

SpecAdmin == Init /\ [][NextAdmin]_vars

\* the check requests of one client between the changes an administrator makes
NextLookup ==
    \/ \E raw \in CheckInputs : check_request(1, "ip1", raw)
    \/ \E c \in Fields, m \in MsgInputs : add_code(ADMIN_KEY, c, m)
    \/ \E i \in DeleteIds : delete_code(ADMIN_KEY, i)

SpecLookup == Init /\ [][NextLookup]_vars

\* the check requests of the clients as time passes, one handler at a time
NextCheck ==
    \/ Tick(MaxTick)
    \/ \E k \in Keys, raw \in LimiterInputs : check_request(1, k, raw)

SpecCheck == Init /\ [][NextCheck]_vars

\* an administrator's requests and restarts of the process, as time passes
NextRestart ==
    \/ Tick(MaxTick)
    \/ lifespan
    \/ list_codes(ADMIN_KEY)
    \/ \E c \in Fields, m \in MsgInputs : add_code(ADMIN_KEY, c, m)
    \/ \E i \in DeleteIds : delete_code(ADMIN_KEY, i)

SpecRestart == Init /\ [][NextRestart]_vars

Next == NextLimiter \/ NextAdmin \/ NextLookup \/ NextCheck \/ NextRestart

Spec == Init /\ [][Next]_vars

\* ---- properties of the rate limiter ------------------------------------------------
MinOf(ts) == CHOOSE m \in {ts[i] : i \in 1..Len(ts)} : \A i \in 1..Len(ts) : m <= ts[i]

Sorted(ts) == \A i \in 1..Len(ts), j \in 1..Len(ts) : i < j => ts[i] <= ts[j]

\* C1: a call that finds fewer than RATE_LIMIT_ATTEMPTS timestamps is permitted
\* (the first N calls from an empty window); a call that finds N timestamps all
\* less than the window away is rejected (the (N+1)-th call inside the window);
\* a call made once the window has passed since every recorded call is
\* permitted again.
C1_WindowCycle ==
    [][\A t \in Threads :
          is_allowed(t) =>
              LET L == Get(store, ip[t])
                  n == now[t]
              IN  /\ Len(L) < RATE_LIMIT_ATTEMPTS => allowed'[t]
                  /\ (/\ Len(L) = RATE_LIMIT_ATTEMPTS
                      /\ \A i \in 1..Len(L) : n - L[i] < WindowTicks) => ~allowed'[t]
                  /\ (\A i \in 1..Len(L) : n - L[i] >= WindowTicks) => allowed'[t]]_vars

\* a call found a full window whose every timestamp had expired, and was permitted
C1_Witness ==
    \E t \in Threads :
        /\ pc[t] = "ret"
        /\ Len(pre[t]) = RATE_LIMIT_ATTEMPTS
        /\ \A i \in 1..Len(pre[t]) : now[t] - pre[t][i] >= WindowTicks
        /\ allowed[t]

\* C2: no key ever holds more than RATE_LIMIT_ATTEMPTS timestamps, and right after
\* a call for a key every timestamp kept for it is less than the window older
\* than that call's now.
C2_WindowBounded ==
    /\ [](\A k \in DOMAIN store : Len(store[k]) <= RATE_LIMIT_ATTEMPTS)
    /\ [][\A t \in Threads :
             is_allowed(t) =>
                 \A i \in 1..Len(store'[ip[t]]) :
                     now[t] - store'[ip[t]][i] < WindowTicks]_vars

\* a call returned for a key whose window is full after it had dropped an expired
\* timestamp, while the other thread is inside a call and another key has timestamps
C2_Witness ==
    \E t \in Threads, u \in Threads, k \in DOMAIN store :
        /\ pc[t] = "ret" /\ allowed[t]
        /\ ip[t] \in DOMAIN store
        /\ Len(store[ip[t]]) = RATE_LIMIT_ATTEMPTS
        /\ Len(pre[t]) = RATE_LIMIT_ATTEMPTS
        /\ u # t /\ pc[u] = "lock"
        /\ k # ip[t] /\ store[k] # <<>>

\* C3: every rejection carries a retry-after of at least one second, in
\* is_allowed's result and in the body and the Retry-After header of the 429.
C3_RetryPositive ==
    /\ \A t \in Threads : (pc[t] = "ret" /\ ~allowed[t]) => retry_after[t] > 0
    /\ resp.status = 429 => (resp.retry > 0 /\ resp.header > 0)

\* C4: a rejection returns the whole seconds left until the oldest timestamp
\* remaining in the key's window expires.
C4_RetryFromOldest ==
    [][\A t \in Threads :
          (is_allowed(t) /\ ~allowed'[t]) =>
              retry_after'[t] =
                  (WindowTicks - (now[t] - MinOf(store'[ip[t]]))) \div TicksPerSec]_vars

\* C5: the timestamps of every key are in non-decreasing order.
C5_Ordered == \A k \in DOMAIN store : Sorted(store[k])

\* C6: with a full window, a call exactly the window after the oldest timestamp
\* drops that timestamp and is permitted; a call any earlier is rejected.
C6_Boundary ==
    [][\A t \in Threads :
          (is_allowed(t) /\ Len(Get(store, ip[t])) = RATE_LIMIT_ATTEMPTS) =>
              LET L == Get(store, ip[t])
                  n == now[t]
              IN  /\ n - MinOf(L) = WindowTicks =>
                        /\ allowed'[t]
                        /\ \A i \in 1..Len(store'[ip[t]]) : store'[ip[t]][i] # MinOf(L)
                  /\ n - MinOf(L) < WindowTicks => ~allowed'[t]]_vars

\* a call arrived exactly the window after the oldest of a full window
C6_Witness ==
    \E t \in Threads :
        /\ pc[t] = "ret"
        /\ Len(pre[t]) = RATE_LIMIT_ATTEMPTS
        /\ now[t] - MinOf(pre[t]) = WindowTicks
        /\ allowed[t]

\* ---- properties of the lookup and of the admin API --------------------------------
\* what a permitted check of raw answers when the table holds rs
PermittedCheck(rs, raw) == Response(TRUE, 0, rs, raw)

Found(raw, msg) ==
    [op |-> "check", status |-> 200, read |-> TRUE, code |-> normalize(raw),
     success |-> TRUE, message |-> msg]

NotFound(raw) ==
    [op |-> "check", status |-> 200, read |-> TRUE, code |-> normalize(raw),
     success |-> FALSE, message |-> Null]

\* a deleted record's code, and any code the table does not hold, is answered
\* {success: false, message: null} with status 200
AbsentIsNotFound ==
    /\ [](\A raw \in CheckInputs :
             (normalize(raw) # <<>> /\ normalize(raw) \notin Codes(rows)) =>
                 PermittedCheck(rows, raw) = NotFound(raw))
    /\ [][(resp'.op = "delete" /\ resp'.status = 200) =>
             \A i \in Ids(rows) :
                 delete_code(ADMIN_KEY, i) =>
                     \A r \in rows, raw \in CheckInputs :
                         (r.id = i /\ normalize(raw) = r.code) =>
                             PermittedCheck(rows', raw) = NotFound(raw)]_vars

\* C7 as stated: after a successful addCode(c, m) a permitted check of any raw
\* string normalizing to normalize(c) answers {success: true, message: m}; after
\* deleteCode of the record, and for a code that is not stored, it answers
\* {success: false, message: null}.
C7_LookupAfterAdd ==
    /\ [][(resp'.op = "add" /\ resp'.status = 200) =>
             \A c \in Strings, m \in MsgInputs :
                 add_code(ADMIN_KEY, c, m) =>
                     \A raw \in CheckInputs :
                         normalize(raw) = normalize(c) =>
                             PermittedCheck(rows', raw) = Found(raw, m)]_vars
    /\ AbsentIsNotFound

\* C7 amended: the message answered is m with its surrounding whitespace removed.
C7_LookupAfterAddTrimmed ==
    /\ [][(resp'.op = "add" /\ resp'.status = 200) =>
             \A c \in Strings, m \in MsgInputs :
                 add_code(ADMIN_KEY, c, m) =>
                     \A raw \in CheckInputs :
                         normalize(raw) = normalize(c) =>
                             PermittedCheck(rows', raw) = Found(raw, strip(m))]_vars
    /\ AbsentIsNotFound

\* a check answered with the trimmed message of a record that addCode created
C7_Witness ==
    /\ resp.op = "check" /\ resp.status = 200 /\ resp.success
    /\ resp.message = <<"n">>
    /\ \E r \in rows :
           r.id > NumSeeds /\ r.code = resp.code /\ r.message = resp.message

\* the raw codes whose normalized form the table holds
Duplicates == {c \in Strings : normalize(c) \in Codes(rows)}

\* C8 as stated: addCode of a code whose normalized form is stored fails with 409
\* and leaves the table as it was.
C8_DuplicateConflict ==
    \A c \in Duplicates, m \in MsgInputs \ {Missing} :
        /\ AddCode(ADMIN_KEY, c, m, rows, seq, clock).status = 409
        /\ AddCode(ADMIN_KEY, c, m, rows, seq, clock).rows = rows

\* C8 amended: addCode of a code whose normalized form is stored leaves the table
\* as it was, whatever the credential and the message, and fails with 409 when the
\* credential is valid and the message is not empty after trimming.
C8_DuplicateUntouched ==
    \A c \in Duplicates, h \in Headers, m \in MsgInputs :
        LET out == AddCode(h, c, m, rows, seq, clock)
        IN  /\ out.rows = rows
            /\ out.seq = seq
            /\ out.status # 200
            /\ (h = ADMIN_KEY /\ m # Missing /\ strip(m) # <<>>) => out.status = 409

\* addCode answered 409 in a second later than the one the stored record was
\* created in
C8_Witness ==
    /\ resp.op = "add" /\ resp.status = 409
    /\ \E r \in rows : r.id > NumSeeds /\ r.created_at < DateTime(clock)

\* C9: deleteCode with the valid credential answers success; it leaves the table
\* unchanged when no record has the id, and a second deleteCode of the same id
\* changes nothing more.
C9_DeleteIdempotent ==
    [][resp'.op = "delete" =>
          \A i \in DeleteIds :
              delete_code(ADMIN_KEY, i) =>
                  /\ resp'.status = 200
                  /\ i \notin Ids(rows) => rows' = rows
                  /\ i \notin Ids(rows')
                  /\ DeleteRows(rows', i) = rows'
                  /\ seq' = seq]_vars

\* deleteCode answered success although no record was ever removed
C9_Witness ==
    /\ resp.op = "delete" /\ resp.status = 200
    /\ seq = NumSeeds
    /\ Cardinality(rows) = NumSeeds

\* C10: an admin request whose credential is missing or wrong is answered 401
\* and leaves the table as it was.
C10_Unauthorized ==
    [][\A h \in Headers \ {ADMIN_KEY} :
          (\/ list_codes(h)
           \/ \E c \in Fields, m \in MsgInputs : add_code(h, c, m)
           \/ \E i \in DeleteIds : delete_code(h, i)) =>
              (resp'.status = 401 /\ rows' = rows /\ seq' = seq)]_vars

\* ---- properties of the connections, the table and the restart ------------------------
\* C11: once an operation has returned or raised, no connection it opened is
\* open: after any sequence of completed operations none is open.
C11_NoOpenConnection == conns = 0

\* C12: no two records have the same code; every stored code is non-empty,
\* trimmed and uppercase; every stored message is non-empty.
C12_StoredWellFormed ==
    /\ \A r, q \in rows : r.code = q.code => r = q
    /\ \A r \in rows :
           /\ r.code # <<>>
           /\ strip(r.code) = r.code
           /\ upper(r.code) = r.code
           /\ r.message # <<>>

\* addCode stored the code A of a request that sent it in lower case
C12_Witness ==
    /\ resp.op = "add" /\ resp.status = 200
    /\ \E r \in rows : r.id = seq /\ r.code = <<"A">>

\* C13: a record appears only by a successful addCode, disappears only by a
\* deleteCode, and the code, message and created_at of a record never change,
\* restarts of the process included.
C13_Lifecycle ==
    [][/\ Ids(rows') \ Ids(rows) # {} => (resp'.op = "add" /\ resp'.status = 200)
       /\ Ids(rows) \ Ids(rows') # {} => (resp'.op = "delete" /\ resp'.status = 200)
       /\ \A r \in rows, q \in rows' : r.id = q.id => r = q]_vars

\* C14: initialize changes nothing on a table that holds a record, a second
\* initialize right after a first changes nothing more, and the seeds are
\* inserted only into a table that holds no record.
C14_InitIdempotent ==
    /\ [](/\ rows # {} => init_db(rows, seq, clock) = [rows |-> rows, seq |-> seq]
          /\ \A later \in clock..MaxTick :
                 init_db(init_db(rows, seq, clock).rows,
                         init_db(rows, seq, clock).seq, later)
                     = init_db(rows, seq, clock))
    /\ [][resp'.op = "start" =>
             /\ rows # {} => (rows' = rows /\ seq' = seq)
             /\ rows' # rows =>
                    (rows = {} /\ Codes(rows') = Codes(SeedRows)
                               /\ seq' = seq + NumSeeds)]_vars

\* the process started on the table an administrator had emptied, which seeded it
\* again, and started once more after one of the new seeds was deleted
C14_Witness ==
    /\ resp.op = "start"
    /\ \E r \in rows : r.id > NumSeeds /\ r.code \in Codes(SeedRows)
    /\ Cardinality(rows) < NumSeeds

\* C16: no two records have the same id; a new record's id is above every id the
\* table ever assigned, the ids of deleted records included; so the list that
\* listCodes answers, by descending id, has the records created last first.
C16_IdsIncrease ==
    /\ [](/\ \A r, q \in rows : r.id = q.id => r = q
          /\ \A r \in rows : r.id <= seq
          /\ (resp.op = "list" /\ resp.status = 200) =>
                 /\ {resp.body[i] : i \in 1..Len(resp.body)} = rows
                 /\ \A i, j \in 1..Len(resp.body) :
                        i < j => /\ resp.body[i].id > resp.body[j].id
                                 /\ resp.body[i].created_at >= resp.body[j].created_at)
    /\ [][/\ seq' >= seq
           /\ \A r \in rows' : r.id \notin Ids(rows) => r.id > seq]_vars

\* addCode created a record after the record with the highest id was deleted
C16_Witness ==
    /\ resp.op = "add" /\ resp.status = 200
    /\ NumSeeds \notin Ids(rows)
    /\ \E r \in rows : r.id = NumSeeds + 1 /\ r.id = seq

\* ---- properties of the check request and of the limiter under it -----------------
\* C15: a check that the limiter rejected is answered 429 with the limiter's
\* retry-after in the body and in the Retry-After header, whatever its code,
\* and without a read of the table; a check reads the table only after the
\* limiter permitted it.
C15_GateBeforeRead ==
    [][\A t \in Threads :
          (pc[t] = "ret" /\ pc'[t] = "idle" /\ resp'.op = "check") =>
              /\ ~allowed[t] =>
                     resp' = [op |-> "check", status |-> 429, read |-> FALSE,
                              retry |-> retry_after[t], header |-> retry_after[t]]
              /\ resp'.read => allowed[t]]_vars

\* a rejected check was answered 429 with one second to wait
C15_Witness ==
    /\ resp.op = "check" /\ resp.status = 429
    /\ resp.retry = 1 /\ resp.header = 1

RECURSIVE SumOver(_, _)
SumOver(f, S) ==
    IF S = {} THEN 0
    ELSE LET n == CHOOSE x \in S : TRUE IN f[n] + SumOver(f, S \ {n})

\* C17: of the calls permitted for a key, at most RATE_LIMIT_ATTEMPTS read their
\* time inside any one interval [a, a + RATE_LIMIT_WINDOW), however the calls
\* of concurrent requests interleave.
C17_WindowQuota ==
    \A k \in Keys, a \in 0..MaxTick :
        SumOver(granted[k], {n \in 0..MaxTick : a <= n /\ n < a + WindowTicks})
            <= RATE_LIMIT_ATTEMPTS

\* C18: a rejected call leaves under its key the timestamps it found less those
\* that expired, and nothing else; and a call that reads a time one window or
\* more after the oldest timestamp under its key is permitted, whatever calls
\* were rejected before it.
C18_RejectedRecordsNothing ==
    [][\A t \in Threads :
          (pc[t] = "body" /\ pc'[t] = "ret") =>
              LET L == Get(store, ip[t])
              IN  /\ ~allowed'[t] =>
                         store'[ip[t]] =
                             SelectSeq(L, LAMBDA x : now[t] - x < WindowTicks)
                  /\ (L # <<>> /\ now[t] - MinOf(L) >= WindowTicks) =>
                         allowed'[t]]_vars

\* with a full window, one request was rejected, and a request one window after
\* the oldest timestamp found the window as it was and was permitted
C18_Witness ==
    \E t, u \in Threads :
        /\ pc[t] = "ret" /\ pc[u] = "ret" /\ ip[t] = ip[u]
        /\ ~allowed[u] /\ allowed[t]
        /\ now[u] < now[t]
        /\ Len(pre[t]) = RATE_LIMIT_ATTEMPTS
        /\ pre[t] = pre[u]
        /\ now[t] - MinOf(pre[t]) >= WindowTicks

\* C19: a call for a key leaves the list of every other key as it was, and any
\* later call for another key has the results, and leaves the list, it would
\* have had without that call.
C19_OtherKeysUntouched ==
    [][\A t \in Threads :
          (pc[t] = "body" /\ pc'[t] = "ret") =>
              \A k2 \in Keys \ {ip[t]} :
                  /\ Get(store', k2) = Get(store, k2)
                  /\ k2 \in DOMAIN store' <=> k2 \in DOMAIN store
                  /\ \A n2 \in 0..MaxTick :
                         LET with == IsAllowed(store', k2, n2)
                             without == IsAllowed(store, k2, n2)
                         IN  /\ with.allowed = without.allowed
                             /\ with.retry_after = without.retry_after
                             /\ with.store[k2] = without.store[k2]]_vars

\* a call for one key was permitted while the window of the other key, with a
\* timestamp the call's time would expire, was full
C19_Witness ==
    \E t \in Threads, k2 \in Keys :
        /\ pc[t] = "ret" /\ allowed[t] /\ k2 # ip[t]
        /\ Len(Get(store, k2)) = RATE_LIMIT_ATTEMPTS
        /\ now[t] - MinOf(Get(store, k2)) >= WindowTicks

\* C20: a check that the limiter permits and whose code is empty once trimmed is
\* answered 400 without a read of the table, and its time is recorded under
\* the client's key like that of any permitted check; a check that finds
\* RATE_LIMIT_ATTEMPTS unexpired timestamps under its key, those of such checks
\* included, is answered 429 whether its code is valid or not.
C20_InvalidCounts ==
    [][\A k \in Keys, raw \in LimiterInputs :
          check_request(1, k, raw) =>
              LET kept == Prune(Get(store, k), clock)
              IN  /\ (normalize(raw) = <<>> /\ Len(kept) < RATE_LIMIT_ATTEMPTS) =>
                         /\ resp' = [op |-> "check", status |-> 400, read |-> FALSE]
                         /\ Get(store', k) = Append(kept, clock)
                         /\ granted'[k][clock] = granted[k][clock] + 1
                  /\ Len(kept) >= RATE_LIMIT_ATTEMPTS =>
                         (resp'.status = 429 /\ ~resp'.read)]_vars

\* a check answered 400 filled the window of its key with its own timestamp
C20_Witness ==
    /\ resp.op = "check" /\ resp.status = 400
    /\ \E k \in DOMAIN store :
           /\ Len(store[k]) = RATE_LIMIT_ATTEMPTS
           /\ store[k][RATE_LIMIT_ATTEMPTS] = clock
           /\ clock > 0

====
